---------------------------- MODULE Spec2Model ----------------------------
(***************************************************************************)
(* Funny JSON Explorer (src/fje.py): JSONBuilder.build turns a parsed JSON *)
(* value into a tree of Leaf/Composite nodes of the chosen factory, and    *)
(* display() on the root renders it in the tree or the rectangle style.    *)
(*                                                                         *)
(* A Python str is modelled as a sequence of code points.  TLA+ strings    *)
(* hold ASCII only, so every code point is written as one TLA+ string: an  *)
(* ASCII character stands for itself and a box-drawing or icon code point  *)
(* is written by its Unicode number ("u2502" is the one character U+2502). *)
(***************************************************************************)
EXTENDS Integers, Sequences, FiniteSets, TLC

VARIABLES pc, json_data, factory, icon_family, root, output

vars == <<pc, json_data, factory, icon_family, root, output>>

----------------------------------------------------------------------------
(* Bounds of the checked inputs *)

\* total number of JSON values in one input document (the root included)
MaxNodes == 4
\* length of the long key that brings rows to the width limit
LongLen == 56

----------------------------------------------------------------------------
(* Glyphs of the source, by code point *)

Vert      == "u2502"   \* '│'
Tee       == "u251C"   \* '├'
Ell       == "u2514"   \* '└'
Horz      == "u2500"   \* '─'
TeeLeft   == "u2524"   \* '┤'
CornerTL  == "u250C"   \* '┌'
CornerTR  == "u2510"   \* '┐'
CornerBR  == "u2518"   \* '┘'
TeeUp     == "u2534"   \* '┴'
NL        == "\n"
SP        == " "

\* RectangleLeafNode / RectangleCompositeNode: row_length=60
row_length == 60

\* the icon table of main(): default, tree and star themes
IconDefault == << <<SP>>, <<SP>> >>
IconTree    == << <<"u1F333">>, <<"u1F342">> >>
IconStar    == << <<"u2B50", "uFE0F">>, <<"u2728">> >>
IconFamilies == {IconDefault, IconTree, IconStar}

Styles == {"tree", "rectangle"}

----------------------------------------------------------------------------
(* Python values and str operations *)

PyNone     == [ty |-> "none", val |-> <<>>]
PyStr(s)   == [ty |-> "str",  val |-> s]
PyInt(n)   == [ty |-> "int",  val |-> <<n>>]
PyBool(b)  == [ty |-> "bool", val |-> <<b>>]
IndexError == [ty |-> "IndexError", val |-> <<>>]

Digit(d) == CASE d = 0 -> "0" [] d = 1 -> "1" [] d = 2 -> "2" [] d = 3 -> "3"
              [] d = 4 -> "4" [] d = 5 -> "5" [] d = 6 -> "6" [] d = 7 -> "7"
              [] d = 8 -> "8" [] d = 9 -> "9"

RECURSIVE StrNat(_)
StrNat(n) == IF n < 10 THEN <<Digit(n)>> ELSE StrNat(n \div 10) \o <<Digit(n % 10)>>

\* str(x) / f"{x}"
Format(x) ==
    CASE x.ty = "none" -> <<"N", "o", "n", "e">>
      [] x.ty = "str"  -> x.val
      [] x.ty = "int"  -> IF x.val[1] < 0 THEN <<"-">> \o StrNat(0 - x.val[1])
                                          ELSE StrNat(x.val[1])
      [] x.ty = "bool" -> IF x.val[1] THEN <<"T", "r", "u", "e">>
                                      ELSE <<"F", "a", "l", "s", "e">>

\* c * n : the empty string when n <= 0
Rep(c, n) == [i \in 1..n |-> c]

Whitespace == {SP, NL, "\t", "\r"}

RECURSIVE rstrip(_)
rstrip(s) ==
    IF Len(s) > 0 /\ s[Len(s)] \in Whitespace THEN rstrip(SubSeq(s, 1, Len(s) - 1)) ELSE s

----------------------------------------------------------------------------
(* Node classes *)

\* a leaf carries no level attribute until add() stamps one
Unset == -1

TreeLeafNode(key, value, icons) ==
    [cls |-> "TreeLeafNode", icon_family |-> icons, key |-> key, value |-> value,
     children |-> <<>>, level |-> Unset]

TreeCompositeNode(key, icons) ==
    [cls |-> "TreeCompositeNode", icon_family |-> icons, key |-> key, value |-> PyNone,
     children |-> <<>>, level |-> 0]

RectangleLeafNode(key, value, icons) ==
    [cls |-> "RectangleLeafNode", icon_family |-> icons, key |-> key, value |-> value,
     children |-> <<>>, level |-> Unset, row_length |-> row_length]

RectangleCompositeNode(key, icons) ==
    [cls |-> "RectangleCompositeNode", icon_family |-> icons, key |-> key, value |-> PyNone,
     children |-> <<>>, level |-> 0, row_length |-> row_length]

IsComposite(node) == node.cls \in {"TreeCompositeNode", "RectangleCompositeNode"}

\* add() putting the new child in front of the others
add_Prepend(self, node) ==
    [self EXCEPT !.children = <<[node EXCEPT !.level = self.level + 1]>> \o @]

\* TreeCompositeNode.add / RectangleCompositeNode.add
add(self, node) ==
    [self EXCEPT !.children = Append(@, [node EXCEPT !.level = self.level + 1])]

----------------------------------------------------------------------------
(* Factories and JSONBuilder *)

create_leaf_node(fac, key, value, icons) ==
    IF fac = "tree" THEN TreeLeafNode(key, value, icons)
                    ELSE RectangleLeafNode(key, value, icons)

create_composite_node(fac, key, icons) ==
    IF fac = "tree" THEN TreeCompositeNode(key, icons)
                    ELSE RectangleCompositeNode(key, icons)

\* the key of the i-th element (0-based) of a list: f"{key}[{i}]"
ListKey(key, i) == PyStr(Format(key) \o <<"[">> \o StrNat(i) \o <<"]">>)

RECURSIVE build(_, _, _, _), BuildItems(_, _, _, _, _, _)

\* the two for-loops of build: the child is built first and attached after
BuildItems(fac, icons, json, key, node, i) ==
    IF i > Len(json.items) THEN node
    ELSE LET k == IF json.t = "dict" THEN PyStr(json.items[i].k) ELSE ListKey(key, i - 1)
             child_node == build(fac, icons, json.items[i].v, k)
         IN  BuildItems(fac, icons, json, key, add(node, child_node), i + 1)

build(fac, icons, json, key) ==
    IF json.t \in {"dict", "list"}
    THEN BuildItems(fac, icons, json, key, create_composite_node(fac, key, icons), 1)
    ELSE create_leaf_node(fac, key, json.v, icons)

----------------------------------------------------------------------------
(* display() of the four node classes.  The result is the Python value     *)
(* returned (a str, or None), or the exception raised.                     *)

\* the connector chosen the wrong way round
Connector_Swapped(is_last) == IF is_last THEN <<Tee, Horz>> ELSE <<Ell, Horz>>

Connector(is_last) == IF is_last THEN <<Ell, Horz>> ELSE <<Tee, Horz>>

\* TreeLeafNode.display
TreeLeafDisplay(self, prefix, is_last) ==
    LET node_prefix == Connector(is_last) IN
    IF self.value = PyNone
    THEN PyStr(prefix \o node_prefix \o self.icon_family[2] \o Format(self.key))
    ELSE PyStr(prefix \o node_prefix \o self.icon_family[2] \o Format(self.key)
               \o <<":", SP>> \o Format(self.value))

\* RectangleLeafNode.display padding one fill glyph too many
RectangleLeafDisplay_PadOneMore(self, prefix, is_last) ==
    LET node_prefix == Connector(is_last)
        row == IF self.value = PyNone
               THEN prefix \o node_prefix \o self.icon_family[2] \o Format(self.key)
               ELSE prefix \o node_prefix \o self.icon_family[2] \o Format(self.key)
                    \o <<":", SP>> \o Format(self.value)
    IN  IF Len(row) < self.row_length
        THEN PyStr(row \o Rep(Horz, self.row_length - Len(row)) \o <<Horz, TeeLeft>>)
        ELSE PyNone

\* RectangleLeafNode.display: falls off the end (returns None) when the row
\* does not fit
RectangleLeafDisplay(self, prefix, is_last) ==
    LET node_prefix == Connector(is_last)
        row == IF self.value = PyNone
               THEN prefix \o node_prefix \o self.icon_family[2] \o Format(self.key)
               ELSE prefix \o node_prefix \o self.icon_family[2] \o Format(self.key)
                    \o <<":", SP>> \o Format(self.value)
    IN  IF Len(row) < self.row_length
        THEN PyStr(row \o Rep(Horz, self.row_length - Len(row) - 1) \o <<Horz, TeeLeft>>)
        ELSE PyNone

\* result_list[i] with a Python index i (negative counts from the end)
PyIndex(l, i) == IF i < 0 THEN Len(l) + i + 1 ELSE i + 1
PyInRange(l, i) == PyIndex(l, i) >= 1 /\ PyIndex(l, i) <= Len(l)

\* what one pass of the scan loop writes at a position holding c: the first
\* two branches of the if / elif chain
BorderGlyph(c) ==
    IF c = Vert \/ c = Tee \/ c = Ell THEN TeeUp
    ELSE IF c = SP THEN Horz
    ELSE c

\* the third branch of the chain: the loop breaks at a character that is
\* neither a guide nor a blank and equals one of the two icon strings
BorderBreak(self, c) ==
    /\ ~(c = Vert \/ c = Tee \/ c = Ell)
    /\ c # SP
    /\ (<<c>> = self.icon_family[1] \/ <<c>> = self.icon_family[2])

\* for i in range(-row_length-1, -1): ... of RectangleCompositeNode.display,
\* started at Python index i.  Each pass reads and writes position i only, so
\* the loop rewrites the positions from the start up to the first one where it
\* breaks (or up to index -2 when it never does) and leaves the rest.
BorderScan(self, result_list, i) ==
    LET first == PyIndex(result_list, i)
        last  == PyIndex(result_list, -2)
        brk   == {p \in first..last : BorderBreak(self, result_list[p])}
        stop  == IF brk = {} THEN last + 1
                 ELSE CHOOSE p \in brk : \A q \in brk : p <= q
    IN  [p \in 1..Len(result_list) |->
            IF p >= first /\ p < stop THEN BorderGlyph(result_list[p])
            ELSE result_list[p]]

\* the border pass with the scan started one position early, on the corner
BorderPass_ScanFromCorner(self, result) ==
    LET W  == self.row_length
        l0 == result
    IN  IF ~PyInRange(l0, 0) THEN IndexError ELSE
        LET l1 == [l0 EXCEPT ![PyIndex(l0, 0)] = CornerTL] IN
        IF ~PyInRange(l1, W) THEN IndexError ELSE
        LET l2 == [l1 EXCEPT ![PyIndex(l1, W)] = CornerTR] IN
        IF ~PyInRange(l2, -2) THEN IndexError ELSE
        LET l3 == [l2 EXCEPT ![PyIndex(l2, -2)] = CornerBR] IN
        IF ~PyInRange(l3, 0 - W - 2) THEN IndexError ELSE
        LET l4 == [l3 EXCEPT ![PyIndex(l3, 0 - W - 2)] = Ell] IN
        PyStr(BorderScan(self, l4, 0 - W - 2))

\* the border pass of RectangleCompositeNode.display (if self.level == 0):
\* an assignment to an index outside the list raises IndexError
BorderPass(self, result) ==
    LET W  == self.row_length
        l0 == result
    IN  IF ~PyInRange(l0, 0) THEN IndexError ELSE
        LET l1 == [l0 EXCEPT ![PyIndex(l0, 0)] = CornerTL] IN
        IF ~PyInRange(l1, W) THEN IndexError ELSE
        LET l2 == [l1 EXCEPT ![PyIndex(l1, W)] = CornerTR] IN
        IF ~PyInRange(l2, -2) THEN IndexError ELSE
        LET l3 == [l2 EXCEPT ![PyIndex(l2, -2)] = CornerBR] IN
        IF ~PyInRange(l3, 0 - W - 2) THEN IndexError ELSE
        LET l4 == [l3 EXCEPT ![PyIndex(l3, 0 - W - 2)] = Ell] IN
        PyStr(BorderScan(self, l4, 0 - W - 1))

\* the child prefix drawing a guide under every non-root composite
TreeChildPrefix_GuideAlways(self, is_last) ==
    IF self.level = 0 THEN <<>> ELSE <<Vert, SP, SP>>

\* child_prefix of TreeCompositeNode.display
TreeChildPrefix(self, is_last) ==
    IF self.level = 0 THEN <<>>
    ELSE IF is_last THEN <<SP, SP, SP>> ELSE <<Vert, SP, SP>>

\* child_prefix of RectangleCompositeNode.display
RectangleChildPrefix(self) ==
    IF self.level = 0 THEN <<>> ELSE <<Vert, SP, SP>>

RECURSIVE display(_, _, _), TreeChildren(_, _, _, _, _), RectangleChildren(_, _, _, _)

\* for i, child in enumerate(self.children) of TreeCompositeNode.display
TreeChildren(self, prefix, is_last, result, i) ==
    IF i > Len(self.children) THEN result
    ELSE LET child_is_last == (i = Len(self.children))
             child_prefix == TreeChildPrefix(self, is_last)
             shown == display(self.children[i], prefix \o child_prefix, child_is_last)
         IN  TreeChildren(self, prefix, is_last, result \o shown.val \o <<NL>>, i + 1)

\* TreeCompositeNode.display
TreeCompositeDisplay(self, prefix, is_last) ==
    LET node_prefix == Connector(is_last)
        result == IF self.level = 0 THEN <<>>
                  ELSE prefix \o node_prefix \o self.icon_family[1] \o Format(self.key) \o <<NL>>
    IN  PyStr(rstrip(TreeChildren(self, prefix, is_last, result, 1)))

\* for i, child in enumerate(self.children) of RectangleCompositeNode.display;
\* an exception of a child's display ends the loop
RectangleChildren(self, prefix, result, i) ==
    IF i > Len(self.children) THEN PyStr(result)
    ELSE LET child_is_last == (i = Len(self.children))
             child_prefix == RectangleChildPrefix(self)
             shown == display(self.children[i], prefix \o child_prefix, child_is_last)
         IN  IF shown.ty = "IndexError" THEN shown
             ELSE RectangleChildren(self, prefix, result \o Format(shown) \o <<NL>>, i + 1)

\* RectangleCompositeNode.display
RectangleCompositeDisplay(self, prefix, is_last) ==
    LET node_prefix == <<Tee, Horz>>
        row == prefix \o node_prefix \o self.icon_family[1] \o Format(self.key)
        result == IF self.level = 0 THEN <<>>
                  ELSE row \o Rep(Horz, self.row_length - Len(row) - 1)
                       \o <<Horz, TeeLeft>> \o <<NL>>
        body == RectangleChildren(self, prefix, result, 1)
        framed == IF body.ty = "IndexError" THEN body
                  ELSE IF self.level = 0 THEN BorderPass(self, body.val)
                  ELSE body
    IN  IF framed.ty = "IndexError" THEN framed ELSE PyStr(rstrip(framed.val))

\* node.display(prefix, is_last): dispatch on the node's class
display(node, prefix, is_last) ==
    CASE node.cls = "TreeLeafNode"           -> TreeLeafDisplay(node, prefix, is_last)
      [] node.cls = "TreeCompositeNode"      -> TreeCompositeDisplay(node, prefix, is_last)
      [] node.cls = "RectangleLeafNode"      -> RectangleLeafDisplay(node, prefix, is_last)
      [] node.cls = "RectangleCompositeNode" -> RectangleCompositeDisplay(node, prefix, is_last)

----------------------------------------------------------------------------
(* The JSON documents given to the program *)

KeyA    == <<"a">>
KeyLong == Rep("k", LongLen)
Keys    == {KeyA, KeyLong}

Scalars == {PyNone, PyInt(10)}

\* a parsed JSON value; items holds a dict's (k, v) pairs in declaration order
\* or a list's elements in index order (k unused)
JScalar(v)   == [t |-> "scalar", v |-> v, items |-> <<>>]
JDict(items) == [t |-> "dict", v |-> PyNone, items |-> items]
JList(items) == [t |-> "list", v |-> PyNone, items |-> items]

RECURSIVE JsonOfSize(_), ListItems(_), DictItems(_, _)

\* the sequences of JSON values holding m values in all
ListItems(m) ==
    IF m = 0 THEN {<<>>}
    ELSE UNION {{<<[k |-> <<>>, v |-> v]>> \o rest :
                    v \in JsonOfSize(k), rest \in ListItems(m - k)} : k \in 1..m}

\* the sequences of (key, value) holding m values in all, keys pairwise distinct
DictItems(m, free) ==
    IF m = 0 THEN {<<>>}
    ELSE UNION {{<<[k |-> key, v |-> v]>> \o rest :
                    v \in JsonOfSize(k), rest \in DictItems(m - k, free \ {key})} :
                <<key, k>> \in free \X (1..m)}

\* the JSON values made of exactly n values
JsonOfSize(n) ==
    (IF n = 1 THEN {JScalar(v) : v \in Scalars} ELSE {})
    \cup {JDict(items) : items \in DictItems(n - 1, Keys)}
    \cup {JList(items) : items \in ListItems(n - 1)}

JsonValues == UNION {JsonOfSize(n) : n \in 1..MaxNodes}

----------------------------------------------------------------------------
(* main(): load, build, display *)

NoValue == [ty |-> "unset", val |-> <<>>]

Init ==
    /\ pc = "load"
    /\ json_data \in JsonValues
    /\ factory \in Styles
    /\ icon_family \in IconFamilies
    /\ root = NoValue
    /\ output = NoValue

\* root = builder.build(json_data)
Build ==
    /\ pc = "load"
    /\ root' = build(factory, icon_family, json_data, PyNone)
    /\ pc' = "built"
    /\ UNCHANGED <<json_data, factory, icon_family, output>>

\* root.display(), with the default arguments prefix='' and is_last=True
Display ==
    /\ pc = "built"
    /\ output' = display(root, <<>>, TRUE)
    /\ pc' = "done"
    /\ UNCHANGED <<json_data, factory, icon_family, root>>

Next == Build \/ Display

Spec == Init /\ [][Next]_vars

----------------------------------------------------------------------------
(* Vocabulary of the properties *)

Done == pc = "done"

\* the lines of a text (none for the empty text)
Lines(s) ==
    LET brk     == {i \in 1..Len(s) : s[i] = NL}
        Break(k) == CHOOSE i \in brk : Cardinality({j \in brk : j < i}) = k - 1
        n       == Cardinality(brk) + 1
    IN  IF s = <<>> THEN <<>>
        ELSE [k \in 1..n |->
                SubSeq(s, IF k = 1 THEN 1 ELSE Break(k - 1) + 1,
                          IF k = n THEN Len(s) ELSE Break(k) - 1)]

OutLines == Lines(output.val)

\* One entry per node that display() draws, in document order: depth is the
\* number of edges from the root, is_last tells whether the node is the last
\* child of its parent, anc lists is_last of its non-root ancestors from the
\* top down.
Entry(node, depth, is_last, anc) ==
    [key |-> node.key, value |-> node.value, composite |-> IsComposite(node),
     depth |-> depth, is_last |-> is_last, anc |-> anc]

RECURSIVE WalkFrom(_, _, _, _)
WalkFrom(node, depth, anc, i) ==
    IF i > Len(node.children) THEN <<>>
    ELSE LET c == node.children[i]
             last == (i = Len(node.children))
         IN  <<Entry(c, depth, last, anc)>>
             \o WalkFrom(c, depth + 1, Append(anc, last), 1)
             \o WalkFrom(node, depth, anc, i + 1)

\* a root that is a leaf (a scalar document) is drawn as one line of its own
Rendered ==
    IF IsComposite(root) THEN WalkFrom(root, 1, <<>>, 1)
    ELSE <<Entry(root, 1, TRUE, <<>>)>>

IconOf(e) == IF e.composite THEN icon_family[1] ELSE icon_family[2]

Label(e) ==
    Format(e.key) \o (IF e.composite \/ e.value = PyNone THEN <<>>
                      ELSE <<":", SP>> \o Format(e.value))

\* prefix + connector + icon + label
RowLen(e) == 3 * (e.depth - 1) + 2 + Len(IconOf(e)) + Len(Label(e))

\* the column (1-based) where the label of an entry starts
LabelCol(e) == 3 * (e.depth - 1) + 2 + Len(IconOf(e)) + 1

AllRowsFit == \A k \in 1..Len(Rendered) : RowLen(Rendered[k]) < row_length

Rectangle == factory = "rectangle"
TreeStyle == factory = "tree"

RightBorder == {TeeLeft, CornerTR, CornerBR}

----------------------------------------------------------------------------
(* Rectangle style: line width *)

----------------------------------------------------------------------------
(* Rectangle style: corners *)

NonEmptyFit ==
    Done /\ Rectangle /\ IsComposite(root) /\ Len(root.children) > 0 /\ AllRowsFit

\* C2 as stated: for a non-empty root whose rows all fit, the first line
\* starts with the top-left and ends with the top-right corner and the last
\* line starts with the bottom-left and ends with the bottom-right corner,
\* also when the output is a single line.
C2_Original ==
    NonEmptyFit =>
        /\ output.ty = "str"
        /\ Len(OutLines) >= 1
        /\ LET first == OutLines[1]
               last  == OutLines[Len(OutLines)]
           IN  /\ first[1] = CornerTL /\ first[Len(first)] = CornerTR
               /\ last[1] = Ell /\ last[Len(last)] = CornerBR

\* C2 amended: with two lines or more the four corners are as stated; a
\* single line keeps the two bottom corners, which overwrite the top ones.
C2_Corners ==
    NonEmptyFit =>
        /\ output.ty = "str"
        /\ Len(OutLines) >= 1
        /\ LET first == OutLines[1]
               last  == OutLines[Len(OutLines)]
           IN  /\ last[1] = Ell /\ last[Len(last)] = CornerBR
               /\ Len(OutLines) >= 2 =>
                     first[1] = CornerTL /\ first[Len(first)] = CornerTR

\* a rectangle of two lines or more whose last line is a nested node, so that
\* the border scan has rewritten guides right of the bottom-left corner
C2_Witness ==
    /\ NonEmptyFit /\ output.ty = "str"
    /\ Len(OutLines) >= 2
    /\ Rendered[Len(Rendered)].depth >= 2
    /\ OutLines[Len(OutLines)][2] = Horz

----------------------------------------------------------------------------
(* Rectangle style: rows that do not fit *)

\* C3 as stated: when some row does not fit, display() on the root ends in
\* an error and returns no text.
C3_Original ==
    (Done /\ Rectangle /\ IsComposite(root) /\ ~AllRowsFit) =>
        output.ty \notin {"str", "none"}

----------------------------------------------------------------------------
(* Levels stamped by build *)

RECURSIVE LevelsFollowParent(_)
LevelsFollowParent(node) ==
    \A i \in 1..Len(node.children) :
        /\ node.children[i].level = node.level + 1
        /\ LevelsFollowParent(node.children[i])

\* C4 as stated: after build the root has level 0 and every child's level is
\* its parent's level plus one, at every nesting depth.
C4_Original ==
    (pc \in {"built", "done"} /\ IsComposite(root)) =>
        root.level = 0 /\ LevelsFollowParent(root)

----------------------------------------------------------------------------
(* One child per declared property or element, in order *)

\* The values declared below the root of the input document, in document
\* order, each with the key it must be shown under and its depth.
RECURSIVE DeclaredFrom(_, _, _, _)
DeclaredFrom(json, key, depth, i) ==
    IF i > Len(json.items) THEN <<>>
    ELSE LET k == IF json.t = "dict" THEN json.items[i].k
                  ELSE key \o <<"[">> \o StrNat(i - 1) \o <<"]">>
             v == json.items[i].v
         IN  <<[key |-> k, depth |-> depth, composite |-> v.t # "scalar"]>>
             \o DeclaredFrom(v, k, depth + 1, 1)
             \o DeclaredFrom(json, key, depth, i + 1)

Declared == DeclaredFrom(json_data, <<"N", "o", "n", "e">>, 1, 1)

HasAt(line, col, txt) ==
    Len(line) >= col + Len(txt) - 1 /\ SubSeq(line, col, col + Len(txt) - 1) = txt

----------------------------------------------------------------------------
(* Tree style: connectors and continuation prefix *)

TreeShown == Done /\ TreeStyle /\ IsComposite(root)

\* C6: in tree style every line is the line of one non-root node, made of a
\* prefix of guide columns followed by exactly one connector, which is the
\* corner connector if and only if the node is the last child of its parent.
C6_Connectors ==
    TreeShown =>
        /\ output.ty = "str"
        /\ Len(OutLines) = Len(Rendered)
        /\ \A k \in 1..Len(Rendered) :
              LET e == Rendered[k]
                  line == OutLines[k]
                  p == 3 * (e.depth - 1)
              IN  /\ Len(line) >= p + 2
                  /\ \A j \in 1..p : line[j] \in {Vert, SP}
                  /\ e.is_last => SubSeq(line, p + 1, p + 2) = <<Ell, Horz>>
                  /\ ~e.is_last => SubSeq(line, p + 1, p + 2) = <<Tee, Horz>>

\* a tree with a node that has a following sibling and a node at depth 2
C6_Witness ==
    /\ TreeShown /\ output.ty = "str"
    /\ \E k \in 1..Len(Rendered) : ~Rendered[k].is_last
    /\ \E k \in 1..Len(Rendered) : Rendered[k].depth >= 2 /\ Rendered[k].is_last

RECURSIVE GuideColumns(_)
GuideColumns(anc) ==
    IF anc = <<>> THEN <<>>
    ELSE (IF anc[1] THEN <<SP, SP, SP>> ELSE <<Vert, SP, SP>>) \o GuideColumns(Tail(anc))

\* C9: in tree style the line of a child of the root starts with its
\* connector, and the line of any deeper node starts with one column of three
\* characters per non-root ancestor, top down: a vertical guide and two blanks
\* when that ancestor has a following sibling, three blanks when it has none.
C9_Prefix ==
    TreeShown =>
        /\ output.ty = "str"
        /\ Len(OutLines) = Len(Rendered)
        /\ \A k \in 1..Len(Rendered) :
              LET e == Rendered[k]
                  line == OutLines[k]
              IN  /\ Len(e.anc) = e.depth - 1
                  /\ HasAt(line, 1, GuideColumns(e.anc))
                  /\ Len(line) > 3 * Len(e.anc)
                  /\ line[3 * Len(e.anc) + 1] \in {Ell, Tee}

\* a tree where a composite with a following sibling has a child
C9_Witness ==
    /\ TreeShown /\ output.ty = "str"
    /\ \E k \in 1..Len(Rendered) : Rendered[k].anc = <<FALSE>>

----------------------------------------------------------------------------
(* Empty root *)

\* C7 as stated: display() on a root composite without children returns the
\* empty string, with either factory.
C7_Original ==
    (Done /\ IsComposite(root) /\ Len(root.children) = 0) => output = PyStr(<<>>)

----------------------------------------------------------------------------
(* Rectangle style: the label of the last line, and the rows before the    *)
(* border pass                                                             *)

\* C8 as stated: the label text of the last line (key, ': ', value) is the
\* same after the border pass as before it, for every icon pair.
C8_Original ==
    (NonEmptyFit /\ output.ty = "str") =>
        LET e == Rendered[Len(Rendered)]
            line == OutLines[Len(OutLines)]
        IN  HasAt(line, LabelCol(e), Label(e))

RectanglePrefix(depth) == [j \in 1..(3 * (depth - 1)) |-> IF j % 3 = 1 THEN Vert ELSE SP]

\* the rows as they are before the border pass
RowsBeforeBorder ==
    LET body == RectangleChildren(root, <<>>, <<>>, 1).val
    IN  IF body = <<>> THEN <<>> ELSE Lines(SubSeq(body, 1, Len(body) - 1))

\* C10 as stated: before the border pass every row is the prefix (one guide
\* and two blanks per non-root composite ancestor), then the tee connector,
\* the icon and the label, whether or not the node is a last child.
C10_Original ==
    (Done /\ Rectangle /\ IsComposite(root) /\ AllRowsFit) =>
        /\ Len(RowsBeforeBorder) = Len(Rendered)
        /\ \A k \in 1..Len(Rendered) :
              LET e == Rendered[k] IN
              HasAt(RowsBeforeBorder[k], 1,
                    RectanglePrefix(e.depth) \o <<Tee, Horz>> \o IconOf(e) \o Label(e))

=============================================================================
